---- MODULE Spec2Model ----
(***************************************************************************)
(* Round-trip correlation engine of the booking webhook service.           *)
(*                                                                         *)
(* Every webhook request is one asyncio task.  A task moves from one await *)
(* of its handler to the next in one step: the code between two awaits     *)
(* runs without interruption on the event loop.  The awaits of the lock    *)
(* acquisitions are kept as steps of their own.                            *)
(*                                                                         *)
(* Time is counted in whole hours, the unit of ROUND_TRIP_CLEANUP_HOURS.   *)
(***************************************************************************)
EXTENDS Integers, Sequences, FiniteSets, TLC

\* ------------------------------------------------------------- bounds
NumTasks == 3
MaxTime == 2

\* ---------------------------------------------------------- constants
\* src/app/config.py:24
ROUND_TRIP_CLEANUP_HOURS == 1

Tasks == 1..NumTasks
NoTask == 0
Orders == {"ORD-1", "ORD-2"}
NoOrder == "none"
OrderIds == Orders \cup {NoOrder}
Legs == {"A", "B", "C"}
BookingIds == {"single_7_T"}
LockIds == 1..NumTasks
NoLock == 0
NoRec == [absent |-> TRUE]
NoRequest == [absent |-> TRUE]
NoBooking ==
    [kind |-> "none", order_id |-> NoOrder, leg |-> "none", booking_id |-> "none"]

\* the order_id and leg of the round-trip payloads: every leg for the first
\* order, whose merges the direction rule is examined on; two legs for the
\* second; one payload without an order_id, whose leg is never read
RoundTripPayloads ==
    ({"ORD-1"} \X Legs) \cup ({"ORD-2"} \X {"A", "B"}) \cup ({NoOrder} \X {"A"})

\* the webhook payloads: is_round_trip, get_order_display_id, the leg's content,
\* and the booking_id that integrations.py:295-299 derives
Bookings ==
    {[kind |-> "round_trip", order_id |-> p[1], leg |-> p[2], booking_id |-> "none"] :
        p \in RoundTripPayloads}
        \cup [kind : {"single_trip"}, order_id : {NoOrder}, leg : {"A"},
               booking_id : BookingIds]

VARIABLES
    now,                 \* the wall clock, datetime.now()
    round_trip_bookings, \* storage.round_trip_bookings
    order_locks,         \* storage._order_locks: order_id -> lock
    locks_lock,          \* storage._locks_lock: the task holding it
    lock_owner,          \* every asyncio.Lock made for an order: its holder
    processed_single_trips, \* the idempotency ledger of single-leg bookings
    pc,                  \* each task's await point
    booking,             \* each task's booking_data
    order_lock,          \* each task's local order_lock
    existing_booking,    \* each task's local existing_booking
    transformed_data,    \* each task's local transformed_data
    result,              \* what receive_booking_webhook returned
    raised,              \* the exception the task's handler raised
    observed,            \* history: the branch taken at has_round_trip_booking
    merged_from,         \* history: the task whose stored leg a merge found
    stored_by,           \* history: the task that stored the pending record
    legs_put,            \* history: legs put under an order since its last removal
    forwards,            \* history: send_to_makersuite_api calls per order
    ext_calls,           \* history: the collaborators each task has called
    concurrent_with,     \* history: same-order tasks in flight when a task began
    sweep_seen           \* history: what some sweep, or some check of the
                         \* store, has met at the limit of the retention window

vars ==
    <<now, round_trip_bookings, order_locks, locks_lock, lock_owner,
      processed_single_trips, pc, booking, order_lock, existing_booking, transformed_data, result, raised,
      observed,
      merged_from, stored_by, legs_put, forwards, ext_calls,
      concurrent_with, sweep_seen>>

shared == <<round_trip_bookings, order_locks, locks_lock, lock_owner>>
history ==
    <<observed, merged_from, stored_by, legs_put, forwards, ext_calls,
      concurrent_with, sweep_seen>>

\* ------------------------------------------------------------ storage

\* datetime.isoformat(): the clock value written as its decimal digits
isoformat(t) == <<t \div 10, t % 10>>

\* datetime.fromisoformat()
fromisoformat(s) == s[1] * 10 + s[2]

has_round_trip_booking(store, order_id) == store[order_id] # NoRec

get_round_trip_booking(store, order_id) == store[order_id]

remove_round_trip_booking(store, order_id) ==
    IF store[order_id] # NoRec
    THEN [store EXCEPT ![order_id] = NoRec]
    ELSE store

store_round_trip_booking(store, order_id, booking_data, flights, current_time) ==
    [store EXCEPT ![order_id] =
        [booking_data |-> booking_data,
         flights |-> flights,
         first_received_at |-> isoformat(current_time)]]

\* the retention test with >= for >
TooOld_inclusive(booking_info, current_time) ==
    current_time - fromisoformat(booking_info.first_received_at)
        >= ROUND_TRIP_CLEANUP_HOURS

\* the test of storage.py:58-59
TooOld(booking_info, current_time) ==
    current_time - fromisoformat(booking_info.first_received_at)
        > ROUND_TRIP_CLEANUP_HOURS

keys_to_remove(store, current_time) ==
    {o \in OrderIds : store[o] # NoRec /\ TooOld(store[o], current_time)}

\* a sweep that removes nothing
cleanup_nothing(store, current_time) == store

cleanup_old_bookings(store, current_time) ==
    [o \in OrderIds |->
        IF o \in keys_to_remove(store, current_time) THEN NoRec ELSE store[o]]

\* ------------------------------------------------------ lock registry

\* a registry that makes a new lock at every call
get_order_lock_always_new(registry, order_id, t) ==
    [registry EXCEPT ![order_id] = t]

\* a registry that hands every order the one lock it made first
get_order_lock_shared(registry, order_id, t) ==
    IF registry[order_id] # NoLock
    THEN registry
    ELSE IF \E o \in OrderIds : registry[o] # NoLock
         THEN [registry EXCEPT ![order_id] =
                  CHOOSE l \in LockIds : \E o \in OrderIds : registry[o] = l]
         ELSE [registry EXCEPT ![order_id] = t]

\* storage.py:25-27, run under _locks_lock; a lock made by task t is lock t
get_order_lock(registry, order_id, t) ==
    IF registry[order_id] = NoLock
    THEN [registry EXCEPT ![order_id] = t]
    ELSE registry

\* an order lock that never makes a task wait
locked_never(l) == FALSE

\* asyncio.Lock.locked()
locked(l) == lock_owner[l] # NoTask

\* leaving "async with order_lock" by a return
exit_by_return(owners, l) == [owners EXCEPT ![l] = NoTask]

\* an exception path that skips the release
exit_without_release(owners, l) == owners

\* leaving "async with order_lock" by an exception
exit_by_exception(owners, l) == [owners EXCEPT ![l] = NoTask]

\* a cleanup that runs only when the merge returns
cleanup_on_return_only(store, order_id, how) ==
    IF how = "return" THEN remove_round_trip_booking(store, order_id) ELSE store

\* the finally clause of integrations.py:228-231; how is "return" or "raise"
finally_cleanup(store, order_id, how) ==
    remove_round_trip_booking(store, order_id)

\* ------------------------------------------------------- collaborators

\* helpers.get_flight_identifiers_from_api, when it does not raise: the
\* flight references of a leg
get_flight_identifiers_from_api(booking_data) ==
    CASE booking_data = "A" -> <<101>>
      [] booking_data = "B" -> <<202>>
      [] OTHER -> <<303>>

\* the chronological indicator of a leg that the direction rule compares:
\* leg A flies first, legs B and C fly at the same later time
sequence_indicator(booking_data) ==
    IF booking_data = "A" THEN 1 ELSE 2

\* a direction rule that takes the stored leg as the outbound one
directions_by_arrival(existing_flights, current_flights, existing_leg, current_leg) ==
    [depart_flights |-> existing_flights, return_flights |-> current_flights]

\* helpers.determine_flight_directions: the leg with the earlier indicator is
\* the outbound one; on a tie the stored leg is
determine_flight_directions(existing_flights, current_flights, existing_leg, current_leg) ==
    IF sequence_indicator(current_leg) < sequence_indicator(existing_leg)
    THEN [depart_flights |-> current_flights, return_flights |-> existing_flights]
    ELSE [depart_flights |-> existing_flights, return_flights |-> current_flights]

\* transform.py:11-43: the request built from the passengers of
\* combined_booking_data and the two flight lists
transform_booking_data(combined_booking_data, depart_flights, return_flights) ==
    [DepartFlights |-> depart_flights,
     ReturnFlights |-> return_flights,
     Passengers |-> combined_booking_data]

NotifyOutcomes == {"sent", "not_sent", "raises"}

\* ---------------------------------------------------------------- Init

Init ==
    /\ now = 0
    /\ round_trip_bookings = [o \in OrderIds |-> NoRec]
    /\ order_locks = [o \in OrderIds |-> NoLock]
    /\ locks_lock = NoTask
    /\ lock_owner = [l \in LockIds |-> NoTask]
    /\ processed_single_trips = {}
    /\ pc = [t \in Tasks |-> "idle"]
    /\ booking = [t \in Tasks |-> NoBooking]
    /\ order_lock = [t \in Tasks |-> NoLock]
    /\ existing_booking = [t \in Tasks |-> "none"]
    /\ transformed_data = [t \in Tasks |-> NoRequest]
    /\ result = [t \in Tasks |-> "none"]
    /\ raised = [t \in Tasks |-> "none"]
    /\ observed = [t \in Tasks |-> "none"]
    /\ merged_from = [t \in Tasks |-> NoTask]
    /\ stored_by = [o \in OrderIds |-> NoTask]
    /\ legs_put = [o \in OrderIds |-> 0]
    /\ forwards = [o \in OrderIds |-> 0]
    /\ ext_calls = [t \in Tasks |-> {}]
    /\ concurrent_with = [t \in Tasks |-> {}]
    /\ sweep_seen = {}

\* ------------------------------------------------------------- helpers

InFlight(t) == pc[t] \notin {"idle", "done"}

OrderOf(t) == booking[t].order_id

IsRoundTrip(t) == booking[t].kind = "round_trip"

\* a task ends: the value receive_booking_webhook returns, and the exception
\* (if any) its except clause caught
Finish(t, res, exc) ==
    /\ pc' = [pc EXCEPT ![t] = "done"]
    /\ result' = [result EXCEPT ![t] = res]
    /\ raised' = [raised EXCEPT ![t] = exc]

Goto(t, label) ==
    /\ pc' = [pc EXCEPT ![t] = label]
    /\ UNCHANGED <<result, raised>>

\* the history of the pending records follows the store
FollowStore ==
    /\ legs_put' = [o \in OrderIds |->
            IF round_trip_bookings'[o] = NoRec THEN 0 ELSE legs_put[o]]
    /\ stored_by' = [o \in OrderIds |->
            IF round_trip_bookings'[o] = NoRec THEN NoTask ELSE stored_by[o]]

Call(t, name) == ext_calls' = [ext_calls EXCEPT ![t] = @ \cup {name}]

\* a handler without the order_id check
missing_order_id_unchecked(b) == FALSE

\* integrations.py:90
missing_order_id(b) == b.order_id = NoOrder

\* ------------------------------------------------------------ actions

\* tasks are interchangeable: they begin in the order of their numbers
MayBegin(t) ==
    /\ pc[t] = "idle"
    /\ \A u \in Tasks : u < t => pc[u] # "idle"

\* order ids are interchangeable: ORD-2 is used once ORD-1 has been
FirstUse(b) ==
    b.order_id = "ORD-2" => \E u \in Tasks : booking[u].order_id = "ORD-1"

\* the same-order round-trip handlers that are running
RunningFor(order_id) ==
    {u \in Tasks : InFlight(u) /\ IsRoundTrip(u) /\ OrderOf(u) = order_id}

\* integrations.py:60-68 and 84-104: a round-trip webhook arrives
receive_round_trip(t, b) ==
    /\ MayBegin(t)
    /\ b.kind = "round_trip"
    /\ FirstUse(b)
    /\ booking' = [booking EXCEPT ![t] = b]
    /\ IF missing_order_id(b)
       THEN /\ Finish(t, "rejected", "none")
            /\ UNCHANGED concurrent_with
       ELSE /\ Goto(t, "get_order_lock")
            /\ concurrent_with' =
                   [concurrent_with EXCEPT ![t] = RunningFor(b.order_id)]
    /\ UNCHANGED <<now, processed_single_trips, shared, order_lock, existing_booking, transformed_data, observed,
                   merged_from, stored_by, legs_put, forwards, ext_calls,
                   sweep_seen>>

\* a single-trip handler that sweeps the pending store as it begins
single_trip_with_sweep(t, b) ==
    /\ MayBegin(t)
    /\ b.kind = "single_trip"
    /\ booking' = [booking EXCEPT ![t] = b]
    /\ round_trip_bookings' = cleanup_old_bookings(round_trip_bookings, now)
    /\ FollowStore
    /\ Finish(t, "processing_failed", "ImportError")
    /\ UNCHANGED <<now, processed_single_trips, order_locks, locks_lock, lock_owner, order_lock,
                   existing_booking, transformed_data, observed, merged_from,
                   forwards, ext_calls, concurrent_with, sweep_seen>>

\* integrations.py:60-78 and 279-287: a single-trip webhook arrives; the import
\* of is_single_trip_processed from app.storage raises ImportError
process_single_trip_booking(t, b) ==
    /\ MayBegin(t)
    /\ b.kind = "single_trip"
    /\ booking' = [booking EXCEPT ![t] = b]
    /\ Finish(t, "processing_failed", "ImportError")
    /\ UNCHANGED <<now, processed_single_trips, shared, order_lock, existing_booking, transformed_data, history>>

\* storage.py:24: async with _locks_lock
get_order_lock_enter(t) ==
    /\ pc[t] = "get_order_lock"
    /\ locks_lock = NoTask
    /\ locks_lock' = t
    /\ Goto(t, "registry")
    /\ UNCHANGED <<now, processed_single_trips, round_trip_bookings, order_locks, lock_owner, booking,
                   order_lock, existing_booking, transformed_data, history>>

\* a registry guard that stays held when get_order_lock returns
locks_lock_kept(holder) == holder

\* storage.py:23-27: the return leaves "async with _locks_lock"
exit_locks_lock(holder) == NoTask

\* storage.py:25-27 and the exit of async with _locks_lock
get_order_lock_return(t) ==
    /\ pc[t] = "registry"
    /\ order_locks' = get_order_lock(order_locks, OrderOf(t), t)
    /\ order_lock' = [order_lock EXCEPT ![t] = order_locks'[OrderOf(t)]]
    /\ locks_lock' = exit_locks_lock(locks_lock)
    /\ Goto(t, "acquire")
    /\ UNCHANGED <<now, processed_single_trips, round_trip_bookings, lock_owner, booking,
                   existing_booking, transformed_data, history>>

\* a handler that enters the section without taking the order lock
acquire_not_taken(owners, l, t) == owners

\* asyncio.Lock.acquire of the order lock; the task goes on without a switch
acquire(owners, l, t) == [owners EXCEPT ![l] = t]

\* what a sweep at current_time shows of the limit of the retention window
SweepShows(store, current_time) ==
    (IF keys_to_remove(store, current_time) # {} THEN {"removed"} ELSE {})
    \cup
    (IF \E o \in OrderIds :
            /\ store[o] # NoRec
            /\ current_time - fromisoformat(store[o].first_received_at)
                   = ROUND_TRIP_CLEANUP_HOURS
            /\ cleanup_old_bookings(store, current_time)[o] # NoRec
     THEN {"kept_at_limit"} ELSE {})

\* a check that sweeps the store before it looks for the order's record
store_swept_at_check(store, current_time) ==
    cleanup_old_bookings(store, current_time)

\* integrations.py:115-117: the store as has_round_trip_booking sees it, before
\* any cleanup
store_at_check(store, current_time) == store

\* what a check at current_time that finds a record shows of its age
CheckShows(booking_info, current_time) ==
    IF TooOld(booking_info, current_time) THEN {"found_stale"} ELSE {}

\* integrations.py:106-151 and 232-248: the order lock is acquired (once it is
\* free) and the handler runs to its first flight lookup: the pending record
\* is found and read, or it is not and the store is swept
check_storage(t) ==
    /\ pc[t] = "acquire"
    /\ ~locked(order_lock[t])
    /\ IF has_round_trip_booking(store_at_check(round_trip_bookings, now),
                                 OrderOf(t))
       THEN LET existing_booking_info ==
                    get_round_trip_booking(round_trip_bookings, OrderOf(t))
            IN  /\ observed' = [observed EXCEPT ![t] = "present"]
                /\ merged_from' = [merged_from EXCEPT ![t] = stored_by[OrderOf(t)]]
                /\ IF existing_booking_info = NoRec
                   THEN \* integrations.py:130-142
                        /\ Finish(t, "storage_error", "none")
                        /\ UNCHANGED sweep_seen
                        /\ lock_owner' =
                               exit_by_return(
                                   acquire(lock_owner, order_lock[t], t),
                                   order_lock[t])
                        /\ UNCHANGED <<existing_booking, ext_calls>>
                   ELSE /\ existing_booking' = [existing_booking EXCEPT
                                ![t] = existing_booking_info.booking_data]
                        /\ lock_owner' = acquire(lock_owner, order_lock[t], t)
                        /\ Goto(t, "lookup_existing")
                        /\ Call(t, "lookup")
                        /\ sweep_seen' =
                               sweep_seen \cup CheckShows(existing_booking_info, now)
                /\ UNCHANGED <<round_trip_bookings, stored_by, legs_put>>
       ELSE /\ observed' = [observed EXCEPT ![t] = "absent"]
            /\ lock_owner' = acquire(lock_owner, order_lock[t], t)
            /\ round_trip_bookings' = cleanup_old_bookings(round_trip_bookings, now)
            /\ sweep_seen' = sweep_seen \cup SweepShows(round_trip_bookings, now)
            /\ FollowStore
            /\ Goto(t, "lookup_first")
            /\ Call(t, "lookup")
            /\ UNCHANGED <<existing_booking, merged_from>>
    /\ UNCHANGED <<now, processed_single_trips, order_locks, locks_lock, booking, order_lock, transformed_data,
                   forwards,
                   concurrent_with>>

\* the merge branch ends: the finally clause, then the exit of async with
leave_merge(t, res, exc, how) ==
    /\ round_trip_bookings' = finally_cleanup(round_trip_bookings, OrderOf(t), how)
    /\ FollowStore
    /\ lock_owner' = IF how = "raise"
                     THEN exit_by_exception(lock_owner, order_lock[t])
                     ELSE exit_by_return(lock_owner, order_lock[t])
    /\ Finish(t, res, exc)

\* integrations.py:149-151: the lookup of the stored leg returns or raises
lookup_existing_returns(t, ok) ==
    /\ pc[t] = "lookup_existing"
    /\ IF ok
       THEN /\ Goto(t, "lookup_current")
            /\ UNCHANGED <<round_trip_bookings, lock_owner, stored_by, legs_put>>
       ELSE leave_merge(t, "processing_failed", "LookupError", "raise")
    /\ UNCHANGED <<now, processed_single_trips, order_locks, locks_lock, booking, order_lock,
                   existing_booking, transformed_data, observed, merged_from, forwards, ext_calls,
                   concurrent_with, sweep_seen>>

\* a handler that calls the forward again when it returned failure
retry_on_forward_failure == "forward"

\* integrations.py:207: the branch taken when the forward returned failure
on_forward_failure == "notify_error"

\* integrations.py:182: send_to_makersuite_api is called
CallForward(t) ==
    /\ forwards' = [forwards EXCEPT ![OrderOf(t)] = @ + 1]
    /\ Call(t, "forward")

\* a merge that takes the passenger data of the incoming leg
combined_from_incoming(existing, incoming) == incoming

\* integrations.py:162-163: combined_booking_data = existing_booking
combined_booking_data(existing, incoming) == existing

\* integrations.py:152-182: the lookup of the incoming leg returns or raises,
\* determine_flight_directions and transform_booking_data run (or raise), and
\* the forward is called
lookup_current_returns(t, outcome) ==
    /\ pc[t] = "lookup_current"
    /\ IF outcome = "ok"
       THEN /\ LET existing_flights ==
                     get_flight_identifiers_from_api(existing_booking[t])
                   current_flights ==
                     get_flight_identifiers_from_api(booking[t].leg)
                   directions ==
                     determine_flight_directions(
                         existing_flights, current_flights,
                         existing_booking[t], booking[t].leg)
               IN  transformed_data' =
                       [transformed_data EXCEPT ![t] =
                           transform_booking_data(
                               combined_booking_data(existing_booking[t],
                                                     booking[t].leg),
                               directions.depart_flights,
                               directions.return_flights)]
            /\ Goto(t, "forward")
            /\ CallForward(t)
            /\ UNCHANGED <<round_trip_bookings, lock_owner, stored_by, legs_put>>
       ELSE /\ leave_merge(t, "processing_failed",
                           IF outcome = "lookup_raises"
                           THEN "LookupError" ELSE "MergeError",
                           "raise")
            /\ UNCHANGED <<forwards, ext_calls, transformed_data>>
    /\ UNCHANGED <<now, processed_single_trips, order_locks, locks_lock, booking, order_lock,
                   existing_booking, observed, merged_from, concurrent_with,
                   sweep_seen>>

\* integrations.py:182-214: the forward returns success or failure, or raises
forward_returns(t, outcome) ==
    /\ pc[t] = "forward"
    /\ CASE outcome = "success" ->
              /\ Goto(t, "notify_success")
              /\ Call(t, "notify")
              /\ UNCHANGED <<round_trip_bookings, lock_owner, stored_by,
                             legs_put, forwards>>
         [] outcome = "failure" ->
              /\ Goto(t, on_forward_failure)
              /\ IF on_forward_failure = "forward"
                 THEN CallForward(t)
                 ELSE Call(t, "notify") /\ UNCHANGED forwards
              /\ UNCHANGED <<round_trip_bookings, lock_owner, stored_by, legs_put>>
         [] OTHER ->
              /\ leave_merge(t, "processing_failed", "ForwardError", "raise")
              /\ UNCHANGED <<forwards, ext_calls>>
    /\ UNCHANGED <<now, processed_single_trips, order_locks, locks_lock, booking, order_lock,
                   existing_booking, transformed_data, observed, merged_from, concurrent_with,
                   sweep_seen>>

\* integrations.py:193-206 and 228-231
notify_success_returns(t, outcome) ==
    /\ pc[t] = "notify_success"
    /\ IF outcome = "raises"
       THEN leave_merge(t, "processing_failed", "NotifyError", "raise")
       ELSE leave_merge(t, "merged_ok", "none", "return")
    /\ UNCHANGED <<now, processed_single_trips, order_locks, locks_lock, booking, order_lock,
                   existing_booking, transformed_data, observed, merged_from, forwards, ext_calls,
                   concurrent_with, sweep_seen>>

\* integrations.py:214-231
notify_error_returns(t, outcome) ==
    /\ pc[t] = "notify_error"
    /\ IF outcome = "raises"
       THEN leave_merge(t, "processing_failed", "NotifyError", "raise")
       ELSE leave_merge(t, "merged_failed", "none", "return")
    /\ UNCHANGED <<now, processed_single_trips, order_locks, locks_lock, booking, order_lock,
                   existing_booking, transformed_data, observed, merged_from, forwards, ext_calls,
                   concurrent_with, sweep_seen>>

\* a handler that catches the failed lookup and stores the leg without flights
store_without_flights(store, order_id, booking_data, t_now) ==
    store_round_trip_booking(store, order_id, booking_data, <<>>, t_now)

\* integrations.py:248-249: the exception of the lookup at line 248 leaves the
\* handler before store_round_trip_booking at line 249 is reached
store_abandoned(store, order_id, booking_data, t_now) == store

\* integrations.py:248-259: the lookup of a first leg returns, the leg is
\* stored and the warning is sent; or the lookup raises
lookup_first_returns(t, ok) ==
    /\ pc[t] = "lookup_first"
    /\ IF ok
       THEN /\ round_trip_bookings' =
                   store_round_trip_booking(
                       round_trip_bookings, OrderOf(t), booking[t].leg,
                       get_flight_identifiers_from_api(booking[t].leg), now)
            /\ legs_put' = [legs_put EXCEPT ![OrderOf(t)] = @ + 1]
            /\ stored_by' = [stored_by EXCEPT ![OrderOf(t)] = t]
            /\ Goto(t, "notify_warning")
            /\ Call(t, "notify")
            /\ UNCHANGED lock_owner
       ELSE /\ lock_owner' = exit_by_exception(lock_owner, order_lock[t])
            /\ Finish(t, "processing_failed", "LookupError")
            /\ round_trip_bookings' =
                   store_abandoned(round_trip_bookings, OrderOf(t),
                                   booking[t].leg, now)
            /\ UNCHANGED <<legs_put, stored_by, ext_calls>>
    /\ UNCHANGED <<now, processed_single_trips, order_locks, locks_lock, booking, order_lock,
                   existing_booking, transformed_data, observed, merged_from, forwards,
                   concurrent_with, sweep_seen>>

\* integrations.py:259-276
notify_warning_returns(t, outcome) ==
    /\ pc[t] = "notify_warning"
    /\ IF outcome = "raises"
       THEN /\ lock_owner' = exit_by_exception(lock_owner, order_lock[t])
            /\ Finish(t, "processing_failed", "NotifyError")
       ELSE /\ lock_owner' = exit_by_return(lock_owner, order_lock[t])
            /\ Finish(t, "stored", "none")
    /\ UNCHANGED <<now, processed_single_trips, round_trip_bookings, order_locks, locks_lock, booking,
                   order_lock, existing_booking, transformed_data, history>>

\* the wall clock advances; the clock shows only in the age of a pending
\* record, so it is let run only while there is one
Tick ==
    /\ now < MaxTime
    /\ \E o \in OrderIds : round_trip_bookings[o] # NoRec
    /\ now' = now + 1
    /\ UNCHANGED <<shared, processed_single_trips, pc, booking, order_lock,
                   existing_booking, transformed_data, result,
                   raised, history>>

Next ==
    \/ \E t \in Tasks, b \in Bookings : receive_round_trip(t, b)
    \/ \E t \in Tasks, b \in Bookings : process_single_trip_booking(t, b)
    \/ \E t \in Tasks : get_order_lock_enter(t)
    \/ \E t \in Tasks : get_order_lock_return(t)
    \/ \E t \in Tasks : check_storage(t)
    \/ \E t \in Tasks, ok \in BOOLEAN : lookup_existing_returns(t, ok)
    \/ \E t \in Tasks, outcome \in {"ok", "lookup_raises", "merge_raises"} :
            lookup_current_returns(t, outcome)
    \/ \E t \in Tasks, outcome \in {"success", "failure", "raises"} :
            forward_returns(t, outcome)
    \/ \E t \in Tasks, outcome \in NotifyOutcomes : notify_success_returns(t, outcome)
    \/ \E t \in Tasks, outcome \in NotifyOutcomes : notify_error_returns(t, outcome)
    \/ \E t \in Tasks, ok \in BOOLEAN : lookup_first_returns(t, ok)
    \/ \E t \in Tasks, outcome \in NotifyOutcomes : notify_warning_returns(t, outcome)
    \/ Tick

Spec == Init /\ [][Next]_vars

\* ------------------------------------------------------------ fairness
\* Termination does not depend on the content of a leg nor on the clock, so
\* the fair specification delivers one leg per order_id and lets no time pass.
LiveBookings == {b \in Bookings : b.kind = "round_trip" /\ b.leg = "A"}

\* a step of the running handler of task t: the event loop resumes every task
\* that is ready, and every awaited collaborator returns or raises
TaskStep(t) ==
    \/ get_order_lock_enter(t)
    \/ get_order_lock_return(t)
    \/ check_storage(t)
    \/ \E ok \in BOOLEAN : lookup_existing_returns(t, ok)
    \/ \E outcome \in {"ok", "lookup_raises", "merge_raises"} :
            lookup_current_returns(t, outcome)
    \/ \E outcome \in {"success", "failure", "raises"} : forward_returns(t, outcome)
    \/ \E outcome \in NotifyOutcomes : notify_success_returns(t, outcome)
    \/ \E outcome \in NotifyOutcomes : notify_error_returns(t, outcome)
    \/ \E ok \in BOOLEAN : lookup_first_returns(t, ok)
    \/ \E outcome \in NotifyOutcomes : notify_warning_returns(t, outcome)

NextLive ==
    \/ \E t \in Tasks, b \in LiveBookings : receive_round_trip(t, b)
    \/ \E t \in Tasks : TaskStep(t)

FairSpec ==
    /\ Init
    /\ [][NextLive]_vars
    /\ \A t \in Tasks : WF_vars(TaskStep(t))

\* ------------------------------------- the single-leg path with a ledger
\* app.storage defines neither is_single_trip_processed nor
\* mark_single_trip_processed, so under Spec the single-leg handler ends at
\* its import.  SpecLedger is the handler of integrations.py:289-363 with the
\* idempotency ledger of the specification in their place: a set of
\* booking_ids.

\* the ledger's lookup
is_single_trip_processed(ledger, booking_id) == booking_id \in ledger

\* the ledger's insert
mark_single_trip_processed(ledger, booking_id) == ledger \cup {booking_id}

\* integrations.py:289-318: the booking_id is derived and looked for in the
\* ledger; a booking not found goes on to its flight lookup
single_trip_received(t, b) ==
    /\ MayBegin(t)
    /\ b.kind = "single_trip"
    /\ booking' = [booking EXCEPT ![t] = b]
    /\ IF is_single_trip_processed(processed_single_trips, b.booking_id)
       THEN /\ Finish(t, "duplicate", "none")
            /\ UNCHANGED ext_calls
       ELSE /\ Goto(t, "single_lookup")
            /\ Call(t, "lookup")
    /\ UNCHANGED <<now, shared, processed_single_trips, order_lock,
                   existing_booking, transformed_data, observed, merged_from,
                   stored_by, legs_put, forwards, concurrent_with, sweep_seen>>

\* integrations.py:318-330: the lookup returns or raises, the request is
\* built (or transform_booking_data raises) and the forward is called
single_lookup_returns(t, outcome) ==
    /\ pc[t] = "single_lookup"
    /\ IF outcome = "ok"
       THEN /\ transformed_data' =
                   [transformed_data EXCEPT ![t] =
                       transform_booking_data(
                           booking[t].leg,
                           get_flight_identifiers_from_api(booking[t].leg),
                           <<>>)]
            /\ Goto(t, "single_forward")
            /\ CallForward(t)
       ELSE /\ Finish(t, "processing_failed",
                      IF outcome = "lookup_raises"
                      THEN "LookupError" ELSE "MergeError")
            /\ UNCHANGED <<transformed_data, forwards, ext_calls>>
    /\ UNCHANGED <<now, shared, processed_single_trips, booking, order_lock,
                   existing_booking, observed, merged_from, stored_by, legs_put,
                   concurrent_with, sweep_seen>>

\* integrations.py:330-358: the forward returns success, and the booking_id
\* is marked, or failure, or raises
single_forward_returns(t, outcome) ==
    /\ pc[t] = "single_forward"
    /\ CASE outcome = "success" ->
              /\ processed_single_trips' =
                     mark_single_trip_processed(processed_single_trips,
                                                booking[t].booking_id)
              /\ Goto(t, "single_notify_success")
              /\ Call(t, "notify")
         [] outcome = "failure" ->
              /\ Goto(t, "single_notify_error")
              /\ Call(t, "notify")
              /\ UNCHANGED processed_single_trips
         [] OTHER ->
              /\ Finish(t, "processing_failed", "ForwardError")
              /\ UNCHANGED <<processed_single_trips, ext_calls>>
    /\ UNCHANGED <<now, shared, booking, order_lock, existing_booking,
                   transformed_data, observed, merged_from, stored_by, legs_put,
                   forwards, concurrent_with, sweep_seen>>

\* integrations.py:341-363: the notification returns or raises
single_notify_returns(t, outcome) ==
    /\ pc[t] \in {"single_notify_success", "single_notify_error"}
    /\ IF outcome = "raises"
       THEN Finish(t, "processing_failed", "NotifyError")
       ELSE Finish(t, IF pc[t] = "single_notify_success"
                      THEN "forwarded" ELSE "forward_failed", "none")
    /\ UNCHANGED <<now, shared, processed_single_trips, booking, order_lock,
                   existing_booking, transformed_data, history>>

NextLedger ==
    \/ \E t \in Tasks, b \in Bookings : single_trip_received(t, b)
    \/ \E t \in Tasks, outcome \in {"ok", "lookup_raises", "transform_raises"} :
            single_lookup_returns(t, outcome)
    \/ \E t \in Tasks, outcome \in {"success", "failure", "raises"} :
            single_forward_returns(t, outcome)
    \/ \E t \in Tasks, outcome \in NotifyOutcomes : single_notify_returns(t, outcome)

SpecLedger == Init /\ [][NextLedger]_vars

\* ------------------------------------------------------------- claims

SameOrder(t1, t2) ==
    /\ t1 # t2
    /\ IsRoundTrip(t1) /\ IsRoundTrip(t2)
    /\ OrderOf(t1) = OrderOf(t2)
    /\ OrderOf(t1) # NoOrder

\* the two handlers ran at the same time: one began while the other was running
Concurrent(t1, t2) ==
    t1 \in concurrent_with[t2] \/ t2 \in concurrent_with[t1]

\* the round-trip notifications delivered so far for an order
Delivered(order_id) ==
    {t \in Tasks : pc[t] # "idle" /\ IsRoundTrip(t) /\ OrderOf(t) = order_id}

MergePcs ==
    {"lookup_existing", "lookup_current", "forward", "notify_success",
     "notify_error"}

\* C1 as stated: two notifications for one order_id that are processed
\* concurrently never both observe "no pending record"; once both have made
\* the check, one took the store path and the other the merge path.
C1_BothNeverAbsent ==
    \A t1, t2 \in Tasks :
        (SameOrder(t1, t2) /\ Concurrent(t1, t2)
            /\ observed[t1] # "none" /\ observed[t2] # "none")
        => {observed[t1], observed[t2]} = {"absent", "present"}

\* C1 as amended: two notifications for one order_id both observe "no pending
\* record" only one after the other: one of them has then finished and the
\* pending record of the order, if there is one, is not a leg it stored (its
\* lookup raised and it stored nothing, or its leg was merged or swept since).
C1_AbsentTwiceOnlyInTurn ==
    \A t1, t2 \in Tasks :
        (SameOrder(t1, t2) /\ observed[t1] = "absent" /\ observed[t2] = "absent")
        => \E x \in {t1, t2} : pc[x] = "done" /\ stored_by[OrderOf(x)] # x

\* C1's case: two concurrent notifications of one order both observed "no
\* pending record", the first having stored nothing, and the second stored
C1_Witness ==
    \E t1, t2 \in Tasks :
        /\ SameOrder(t1, t2) /\ Concurrent(t1, t2)
        /\ observed[t1] = "absent" /\ observed[t2] = "absent"
        /\ raised[t1] = "LookupError"
        /\ stored_by[OrderOf(t2)] = t2

\* C2: every order_id has at most one pending record, and no leg is stored
\* over a pending one: since the last removal of the order's record one leg
\* has been put exactly when a record is pending, none otherwise.
C2_OnePendingPerOrder ==
    \A o \in OrderIds :
        /\ legs_put[o] <= 1
        /\ (round_trip_bookings[o] # NoRec) <=> (legs_put[o] = 1)
        /\ (round_trip_bookings[o] # NoRec) <=> (stored_by[o] # NoTask)

\* C2's case: a leg is pending while another handler of the same order, which
\* began while the first was running, waits for the order lock
C2_Witness ==
    \E t1, t2 \in Tasks :
        /\ SameOrder(t1, t2) /\ Concurrent(t1, t2)
        /\ stored_by[OrderOf(t1)] = t1
        /\ pc[t1] = "notify_warning"
        /\ pc[t2] = "acquire"

\* C3: the step that ends a merge-path handler, by a return or by an
\* exception of a lookup, the merge, the forward or a notification, leaves no
\* pending record for its order_id.
C3_MergeAlwaysCleansUp ==
    [][\A t \in Tasks :
            (pc[t] \in MergePcs /\ pc'[t] = "done")
            => get_round_trip_booking(round_trip_bookings', OrderOf(t)) = NoRec]_vars

\* C3's case: a merge has ended by an exception of the forward, a leg of the
\* order having been stored by another handler, and no record is pending
C3_Witness ==
    \E t \in Tasks :
        /\ observed[t] = "present"
        /\ merged_from[t] \in Tasks \ {t}
        /\ pc[t] = "done"
        /\ raised[t] = "ForwardError"
        /\ round_trip_bookings[OrderOf(t)] = NoRec

\* C4: with exactly two round-trip notifications delivered for an order, the
\* forward has been called at most once for it, and only by a handler that
\* found the leg of the other notification stored.
C4_ForwardAtMostOnce ==
    \A o \in Orders :
        Cardinality(Delivered(o)) = 2
        => /\ forwards[o] <= 1
           /\ \A t \in Delivered(o) :
                  "forward" \in ext_calls[t]
                  => /\ observed[t] = "present"
                     /\ merged_from[t] \in Delivered(o) \ {t}

\* C4's case: two notifications of one order, overlapping, both finished, one
\* forward
C4_Witness ==
    \E t1, t2 \in Tasks :
        /\ SameOrder(t1, t2) /\ Concurrent(t1, t2)
        /\ Delivered(OrderOf(t1)) = {t1, t2}
        /\ pc[t1] = "done" /\ pc[t2] = "done"
        /\ result[t1] = "stored" /\ result[t2] = "merged_ok"
        /\ forwards[OrderOf(t1)] = 1

\* C5: a sweep removes a pending record exactly when its age, now minus
\* first_received_at, is greater than the retention window.
C5_SweepExactlyTheExpired ==
    [][\A t \in Tasks :
            (pc[t] = "acquire" /\ pc'[t] = "lookup_first")
            => \A o \in OrderIds :
                   round_trip_bookings[o] # NoRec
                   => ((round_trip_bookings'[o] = NoRec)
                       <=> (now - fromisoformat(
                                round_trip_bookings[o].first_received_at)
                            > ROUND_TRIP_CLEANUP_HOURS))]_vars

\* C5's case: a sweep has removed a record, and a sweep has kept a record
\* whose age was exactly the retention window
C5_Witness == {"removed", "kept_at_limit"} \subseteq sweep_seen

SingleTrip(t) == booking[t].kind = "single_trip"

CollaboratorErrors == {"LookupError", "MergeError", "ForwardError", "NotifyError"}

\* C6: of two finished deliveries of one single-leg booking, the first of
\* which met no failing collaborator, the first called the forward and the
\* second did not and returned the duplicate-skipped result.
C6_DuplicateSkipped ==
    \A t1, t2 \in Tasks :
        (/\ t1 < t2
         /\ SingleTrip(t1) /\ SingleTrip(t2)
         /\ booking[t1].booking_id = booking[t2].booking_id
         /\ pc[t1] = "done" /\ pc[t2] = "done"
         /\ raised[t1] \notin CollaboratorErrors
         /\ result[t1] # "forward_failed")
        => /\ "forward" \in ext_calls[t1]
           /\ "forward" \notin ext_calls[t2]
           /\ result[t2] = "duplicate"

\* C7: a single-leg delivery whose key has no successful forward behind it is
\* forwarded, not skipped: of two finished deliveries of one booking, when the
\* first was not forwarded successfully and no lookup of the second raised,
\* the second called the forward.
C7_UnmarkedIsForwarded ==
    \A t1, t2 \in Tasks :
        (/\ t1 < t2
         /\ SingleTrip(t1) /\ SingleTrip(t2)
         /\ booking[t1].booking_id = booking[t2].booking_id
         /\ pc[t1] = "done" /\ pc[t2] = "done"
         /\ result[t1] # "forwarded"
         /\ raised[t2] \notin {"LookupError", "MergeError"})
        => "forward" \in ext_calls[t2]

\* C8: the step that receives a round-trip notification without an order_id
\* ends the handler with the rejection and changes neither the pending store,
\* the lock registry nor any lock, and calls no collaborator; nothing is ever
\* registered or stored under the missing order_id.
C8_MissingOrderIdRejected ==
    /\ [](/\ order_locks[NoOrder] = NoLock
          /\ round_trip_bookings[NoOrder] = NoRec)
    /\ [][\A t \in Tasks :
            (/\ pc[t] = "idle" /\ pc'[t] # "idle"
             /\ booking'[t].kind = "round_trip"
             /\ booking'[t].order_id = NoOrder)
            => /\ pc'[t] = "done"
               /\ result'[t] = "rejected"
               /\ order_lock'[t] = NoLock
               /\ ext_calls'[t] = {}
               /\ UNCHANGED <<shared, forwards>>]_vars

\* C8's case: a notification without an order_id was rejected while a leg of
\* an order was pending and its handler held the order's lock
C8_Witness ==
    \E t, u \in Tasks :
        /\ IsRoundTrip(t) /\ OrderOf(t) = NoOrder
        /\ result[t] = "rejected"
        /\ pc[u] = "notify_warning"
        /\ lock_owner[order_lock[u]] = u
        /\ round_trip_bookings[OrderOf(u)] # NoRec

\* C9: all handlers of one order_id that were given a lock were given the
\* same one, the lock registered for the order.
C9_OneLockPerOrder ==
    \A t1, t2 \in Tasks :
        (SameOrder(t1, t2) /\ order_lock[t1] # NoLock /\ order_lock[t2] # NoLock)
        => /\ order_lock[t1] = order_lock[t2]
           /\ order_lock[t1] = order_locks[OrderOf(t1)]

\* C9's case: one handler holds the lock of an order while another handler of
\* the same order, which asked for the lock later, waits on it
C9_Witness ==
    \E t1, t2 \in Tasks :
        /\ SameOrder(t1, t2)
        /\ order_lock[t1] # NoLock
        /\ lock_owner[order_lock[t1]] = t1
        /\ pc[t2] = "acquire"
        /\ order_lock[t2] = order_lock[t1]

\* C10: a handler that has finished holds no order lock, nor the registry
\* guard, however it left the locked section.
C10_FinishedHoldsNoLock ==
    \A t \in Tasks :
        pc[t] = "done"
        => /\ locks_lock # t
           /\ \A l \in LockIds : lock_owner[l] # t

\* C10's case: handlers have left the locked section by an exception, one on
\* the store path and one on the merge path, and the order's lock is free
C10_Witness ==
    \E t1, t2 \in Tasks :
        /\ SameOrder(t1, t2)
        /\ pc[t1] = "done" /\ pc[t2] = "done"
        /\ observed[t1] = "absent" /\ raised[t1] = "NotifyError"
        /\ observed[t2] = "present" /\ raised[t2] = "MergeError"
        /\ ~locked(order_lock[t1])

\* the results that tell the caller the processing did not succeed
ErrorResults == {"processing_failed", "merged_failed", "storage_error"}

\* C11: the step in which the flight lookup of a first leg raises ends the
\* handler with an error result carrying the lookup's error, and no record is
\* pending for the order_id after it.
C11_FailedFirstLookupStoresNothing ==
    [][\A t \in Tasks :
            (pc[t] = "lookup_first" /\ pc'[t] = "done")
            => /\ get_round_trip_booking(round_trip_bookings', OrderOf(t)) = NoRec
               /\ result'[t] \in ErrorResults
               /\ raised'[t] = "LookupError"]_vars

\* C11's case: the lookup of a first leg has raised, the handler has finished
\* with the error and nothing is pending for its order
C11_Witness ==
    \E t \in Tasks :
        /\ IsRoundTrip(t) /\ OrderOf(t) # NoOrder
        /\ observed[t] = "absent"
        /\ pc[t] = "done"
        /\ raised[t] = "LookupError"
        /\ result[t] = "processing_failed"
        /\ round_trip_bookings[OrderOf(t)] = NoRec

\* C12: when the forward of a merged round trip returns failure the handler
\* goes on to the error notification without calling the forward again; from
\* the call of the forward to the end of the handler the forward is not called
\* a second time for the order; and the step that ends the handler after the
\* failure leaves no pending record for the order and gives the caller a
\* failure result.
C12_ForwardFailureIsTerminal ==
    [][\A t \in Tasks :
            /\ (pc[t] \in {"forward", "notify_error"})
               => /\ forwards'[OrderOf(t)] = forwards[OrderOf(t)]
                  /\ pc'[t] \in {pc[t], "notify_success", "notify_error", "done"}
            /\ (pc[t] = "forward" /\ pc'[t] = "notify_error")
               => /\ "notify" \in ext_calls'[t]
                  /\ lock_owner'[order_lock[t]] = t
            /\ (pc[t] = "notify_error" /\ pc'[t] = "done")
               => /\ get_round_trip_booking(round_trip_bookings', OrderOf(t)) = NoRec
                  /\ result'[t] \in ErrorResults
                  /\ result'[t] # "storage_error"]_vars

\* C12's case: a merge whose forward returned failure has finished with the
\* merge-failed result after one call of the forward and the error
\* notification, and nothing is pending for the order
C12_Witness ==
    \E t \in Tasks :
        /\ observed[t] = "present"
        /\ pc[t] = "done"
        /\ result[t] = "merged_failed"
        /\ ext_calls[t] = {"lookup", "forward", "notify"}
        /\ forwards[OrderOf(t)] = 1
        /\ round_trip_bookings[OrderOf(t)] = NoRec

\* C13: a notification that fails changes neither the result nor the store:
\* the step in which a handler's notification ends, whether it was sent, not
\* sent or raised, gives the caller the result of the branch (stored, merged
\* and forwarded, merged and failed) and leaves the order's record as that
\* branch leaves it (pending after a store, absent after a merge).
C13_NotifyFailureChangesNothing ==
    [][\A t \in Tasks :
            /\ (pc[t] = "notify_warning" /\ pc'[t] = "done")
               => /\ result'[t] = "stored"
                  /\ round_trip_bookings' = round_trip_bookings
            /\ (pc[t] = "notify_success" /\ pc'[t] = "done")
               => /\ result'[t] = "merged_ok"
                  /\ round_trip_bookings'[OrderOf(t)] = NoRec
            /\ (pc[t] = "notify_error" /\ pc'[t] = "done")
               => /\ result'[t] = "merged_failed"
                  /\ round_trip_bookings'[OrderOf(t)] = NoRec]_vars

\* the request a merge would build had its two legs arrived the other way
\* round: the incoming leg stored first, the stored leg incoming
SwappedArrival(t) ==
    LET first == booking[t].leg
        second == existing_booking[t]
        directions ==
            determine_flight_directions(
                get_flight_identifiers_from_api(first),
                get_flight_identifiers_from_api(second), first, second)
    IN  transform_booking_data(first, directions.depart_flights,
                               directions.return_flights)

SameAssignment(r1, r2) ==
    /\ r1.DepartFlights = r2.DepartFlights
    /\ r1.ReturnFlights = r2.ReturnFlights

\* C14 as stated: the outbound/return assignment of every merged request is
\* the one the merge gives when the same two legs arrive in the other order.
C14_SameAssignmentEitherOrder ==
    \A t \in Tasks :
        transformed_data[t] # NoRequest
        => SameAssignment(transformed_data[t], SwappedArrival(t))

\* C14 as amended: when the chronological indicators of the two legs differ,
\* the assignment of the merged request is the one the merge gives when the
\* legs arrive in the other order, the earlier leg being the outbound one; when
\* they tie, the stored leg is the outbound one.
C14_SameAssignmentUnlessTie ==
    \A t \in Tasks :
        transformed_data[t] # NoRequest
        => LET stored == existing_booking[t]
               incoming == booking[t].leg
           IN  IF sequence_indicator(stored) # sequence_indicator(incoming)
               THEN /\ SameAssignment(transformed_data[t], SwappedArrival(t))
                    /\ transformed_data[t].DepartFlights = <<101>>
               ELSE transformed_data[t].DepartFlights =
                        get_flight_identifiers_from_api(stored)

\* C14's case: the return leg was stored first and the outbound leg merged
\* with it, and the outbound leg's flights are the request's DepartFlights
C14_Witness ==
    \E t \in Tasks :
        /\ existing_booking[t] = "B"
        /\ booking[t].leg = "A"
        /\ transformed_data[t] # NoRequest
        /\ transformed_data[t].DepartFlights = <<101>>
        /\ transformed_data[t].ReturnFlights = <<202>>

\* C15: processing a first leg, its flight lookup having returned, stores the
\* leg under the order_id, so that a record is pending for the order, ends
\* with the stored-awaiting-match result, and calls the forward at no step.
C15_FirstLegStoredAndWaiting ==
    [][\A t \in Tasks :
            /\ (pc[t] = "lookup_first" /\ pc'[t] = "notify_warning")
               => /\ has_round_trip_booking(round_trip_bookings', OrderOf(t))
                  /\ round_trip_bookings'[OrderOf(t)].booking_data = booking[t].leg
                  /\ forwards' = forwards
            /\ (pc[t] = "notify_warning" /\ pc'[t] = "done")
               => /\ result'[t] = "stored"
                  /\ "forward" \notin ext_calls'[t]
                  /\ forwards' = forwards]_vars

\* the task whose handler takes the step
Acts(t) == pc'[t] # pc[t]

\* task t holds the lock registered for order_id during the step: it holds it
\* before the step, or has acquired it in the step
HoldsLockOf(t, order_id) ==
    /\ order_locks[order_id] # NoLock
    /\ \/ lock_owner[order_locks[order_id]] = t
       \/ lock_owner'[order_locks[order_id]] = t

\* C16 as stated: every step that inserts or removes the pending record of an
\* order_id, the removal by a sweep included, is the step of a task that
\* holds the lock of that order_id.
C16_MutationUnderOrderLock ==
    [][\A o \in OrderIds :
            round_trip_bookings'[o] # round_trip_bookings[o]
            => \E t \in Tasks : Acts(t) /\ HoldsLockOf(t, o)]_vars

\* C16 as amended: a step that inserts the pending record of an order_id, or
\* removes it at the end of a merge, is the step of a handler of that order
\* that holds the order's lock; a step that removes it in a sweep is the step
\* of a handler of another order, which has acquired the lock of its own
\* order and does not hold the lock of the order whose record it removes.
C16_MutationUnderOwnOrderLock ==
    [][\A o \in OrderIds :
            round_trip_bookings'[o] # round_trip_bookings[o]
            => \E t \in Tasks :
                   /\ Acts(t)
                   /\ HoldsLockOf(t, OrderOf(t))
                   /\ IF pc[t] = "acquire"
                      THEN /\ OrderOf(t) # o
                           /\ ~HoldsLockOf(t, o)
                           /\ round_trip_bookings'[o] = NoRec
                      ELSE /\ OrderOf(t) = o
                           /\ lock_owner[order_locks[o]] = t]_vars

\* C16's case: a handler of one order has swept the expired record of another
\* order while a merge of that other order holds its lock
C16_Witness ==
    \E t, u \in Tasks :
        /\ pc[t] = "lookup_first"
        /\ pc[u] \in MergePcs
        /\ OrderOf(t) # OrderOf(u)
        /\ lock_owner[order_lock[u]] = u
        /\ "removed" \in sweep_seen
        /\ round_trip_bookings[OrderOf(u)] = NoRec

\* the await points inside "async with order_lock"
LockedPcs == MergePcs \cup {"lookup_first", "notify_warning"}

C18_OrdersNotSerialized ==
    /\ \A o1, o2 \in Orders :
           (o1 # o2 /\ order_locks[o1] # NoLock) => order_locks[o1] # order_locks[o2]
    /\ \A t \in Tasks :
           pc[t] = "acquire"
           => \/ ~locked(order_lock[t])
              \/ /\ SameOrder(t, lock_owner[order_lock[t]])
                 /\ pc[lock_owner[order_lock[t]]] \in LockedPcs

\* C18's case: a handler of one order, begun after the merge of another order
\* had begun, is inside its locked section, its leg stored, while that merge
\* awaits the forward with its own lock held
C18_Witness ==
    \E t, u \in Tasks :
        /\ OrderOf(t) \in Orders /\ OrderOf(u) \in Orders
        /\ OrderOf(t) # OrderOf(u)
        /\ pc[t] = "forward"
        /\ lock_owner[order_lock[t]] = t
        /\ t < u
        /\ pc[u] = "notify_warning"
        /\ lock_owner[order_lock[u]] = u
        /\ stored_by[OrderOf(u)] = u

\* C19: the registry guard is held only by a task inside get_order_lock: a
\* task that waits for an order lock, holds one, or awaits a lookup, the
\* forward or a notification does not hold it.
C19_GuardHeldOnlyInRegistry ==
    /\ locks_lock # NoTask => pc[locks_lock] = "registry"
    /\ \A t \in Tasks :
           (pc[t] \in LockedPcs \cup {"acquire", "done"}
                \/ \E l \in LockIds : lock_owner[l] = t)
           => locks_lock # t

\* C19's case: a task holds the registry guard while a merge of the same
\* order awaits the forward with the order's lock held
C19_Witness ==
    \E t, u \in Tasks :
        /\ SameOrder(t, u)
        /\ locks_lock = t
        /\ pc[t] = "registry"
        /\ pc[u] = "forward"
        /\ lock_owner[order_lock[u]] = u

\* C20: the step that handles a single-leg booking changes neither the
\* pending store, the lock registry, the registry guard nor any order lock;
\* the handler is given no order lock, makes no check of the pending store,
\* and is the one step.
C20_SingleTripLeavesStoreAlone ==
    [][\A t \in Tasks :
            (pc[t] = "idle" /\ pc'[t] # "idle" /\ booking'[t].kind = "single_trip")
            => /\ pc'[t] = "done"
               /\ UNCHANGED shared
               /\ order_lock'[t] = NoLock
               /\ observed'[t] = "none"
               /\ existing_booking'[t] = "none"
               /\ UNCHANGED <<stored_by, legs_put>>]_vars

\* C20's case: a single-leg booking was handled after an order's record had
\* expired in the store and while a handler of an order held its lock; the
\* record and the lock are as they were
C20_Witness ==
    \E t, u \in Tasks :
        /\ SingleTrip(t)
        /\ pc[t] = "done"
        /\ u < t
        /\ pc[u] = "notify_warning"
        /\ lock_owner[order_lock[u]] = u
        /\ \E o \in Orders :
               /\ round_trip_bookings[o] # NoRec
               /\ TooOld(round_trip_bookings[o], now)

\* the step in which a first-leg handler runs cleanup_old_bookings
Sweeps(t) == pc[t] = "acquire" /\ pc'[t] = "lookup_first"

\* C21: the step in which a handler finds no record for its order, the step
\* before its lookup and store, leaves absent every record of another order
\* whose age is greater than the retention window; every other step of a
\* handler, on the merge path, on the single-leg path or at the store itself,
\* leaves the records of all other orders as they were.
C21_SweepOnlyBeforeFirstLegStore ==
    [][\A t \in Tasks :
          Acts(t)
          => \A o \in OrderIds \ {OrderOf(t)} :
                 IF Sweeps(t)
                 THEN (round_trip_bookings[o] # NoRec
                       /\ now - fromisoformat(
                              round_trip_bookings[o].first_received_at)
                          > ROUND_TRIP_CLEANUP_HOURS)
                      => round_trip_bookings'[o] = NoRec
                 ELSE round_trip_bookings'[o] = round_trip_bookings[o]]_vars

\* C21's case: a first leg of ORD-1 was stored and never merged; a first-leg
\* handler of ORD-2 has swept and awaits its lookup, and the record of ORD-1
\* is absent
C21_Witness ==
    \E t, u \in Tasks :
        /\ OrderOf(t) = "ORD-2" /\ pc[t] = "lookup_first"
        /\ OrderOf(u) = "ORD-1" /\ result[u] = "stored"
        /\ forwards["ORD-1"] = 0
        /\ \A v \in Tasks : OrderOf(v) = "ORD-1" => observed[v] # "present"
        /\ "removed" \in sweep_seen
        /\ round_trip_bookings["ORD-1"] = NoRec

\* C22: a merge that has failed, its forward having returned failure or one
\* of its lookups, the merge or the forward having raised, has given the
\* caller an error result and has called the operator notification.
C22_FailedMergeReportedAndNotified ==
    \A t \in Tasks :
        (/\ pc[t] = "done"
         /\ observed[t] = "present"
         /\ \/ result[t] = "merged_failed"
            \/ raised[t] \in {"LookupError", "MergeError", "ForwardError"})
        => /\ result[t] \in ErrorResults
           /\ "notify" \in ext_calls[t]

\* C23: once a merge of an order has ended, however it ended, the merge
\* holds the order's lock no more, the leg it found stored is pending no
\* more, and no other handler of the order finds or has found that same leg
\* stored: a handler that makes its check next finds no record, unless a leg
\* was stored anew, and takes the store path.
C23_EmptyAfterMerge ==
    \A v \in Tasks :
        (pc[v] = "done" /\ observed[v] = "present")
        => /\ lock_owner[order_lock[v]] # v
           /\ stored_by[OrderOf(v)] # merged_from[v]
           /\ \A u \in Tasks :
                  SameOrder(u, v)
                  => /\ observed[u] = "present" => merged_from[u] # merged_from[v]
                     /\ (pc[u] = "acquire" /\ stored_by[OrderOf(u)] = NoTask)
                        => (~locked(order_lock[u])
                            \/ lock_owner[order_lock[u]] \notin {v, merged_from[v]})

\* C23's case: a merge of an order ended by an exception of the forward; a
\* third notification of the order then found no record and holds the lock
\* with its leg stored as a first leg
C23_Witness ==
    \E u, v \in Tasks :
        /\ SameOrder(u, v)
        /\ pc[v] = "done" /\ observed[v] = "present"
        /\ raised[v] = "ForwardError"
        /\ merged_from[v] \in Tasks \ {u, v}
        /\ observed[u] = "absent"
        /\ pc[u] = "notify_warning"
        /\ lock_owner[order_lock[u]] = u
        /\ stored_by[OrderOf(u)] = u
        /\ round_trip_bookings[OrderOf(u)].booking_data = booking[u].leg

\* C24: the request a merge forwards has the passenger data of the leg that
\* was stored first, whichever of the two legs is the outbound one, and its
\* two flight lists are the flight references of the stored leg and of the
\* incoming leg.
C24_PassengersOfFirstStoredLeg ==
    \A t \in Tasks :
        transformed_data[t] # NoRequest
        => /\ "forward" \in ext_calls[t]
           /\ merged_from[t] \in Tasks \ {t}
           /\ existing_booking[t] = booking[merged_from[t]].leg
           /\ transformed_data[t].Passengers = booking[merged_from[t]].leg
           /\ {transformed_data[t].DepartFlights, transformed_data[t].ReturnFlights}
                  = {get_flight_identifiers_from_api(booking[merged_from[t]].leg),
                     get_flight_identifiers_from_api(booking[t].leg)}

\* C24's case: the return leg was stored first and the outbound leg came
\* second; the request forwarded has the passengers of the return leg and
\* the flights of the outbound leg as DepartFlights
C24_Witness ==
    \E t \in Tasks :
        /\ merged_from[t] \in Tasks \ {t}
        /\ booking[merged_from[t]].leg = "B"
        /\ booking[t].leg = "A"
        /\ pc[t] = "forward"
        /\ transformed_data[t] =
               [DepartFlights |-> <<101>>, ReturnFlights |-> <<202>>,
                Passengers |-> "B"]

\* C25: on the merge path the flight lookup is called for the incoming leg
\* only: a handler that found a leg stored never awaits a lookup of that
\* stored leg, whose flight references are those of the pending record.
C25_MergeLooksUpIncomingLegOnly ==
    \A t \in Tasks : observed[t] = "present" => pc[t] # "lookup_existing"

\* C26 as stated: no handler takes the merge path with a pending record
\* whose age, at the handler's check, is greater than the retention window.
C26_StaleLegNeverMerged ==
    [][\A t \in Tasks :
            (pc[t] = "acquire" /\ pc'[t] = "lookup_existing")
            => now - fromisoformat(
                         round_trip_bookings[OrderOf(t)].first_received_at)
                   <= ROUND_TRIP_CLEANUP_HOURS]_vars

\* C26 as amended: a handler takes the merge path exactly when a record of
\* its order is in the store at its check, whatever the record's age, and
\* merges the leg of that record; it takes the store path exactly when none
\* is. A record that has outlived the retention window is merged unless a
\* sweep has removed it before the check.
C26_PendingLegMergedWhateverItsAge ==
    [][\A t \in Tasks :
            (pc[t] = "acquire" /\ Acts(t))
            => IF round_trip_bookings[OrderOf(t)] # NoRec
               THEN /\ pc'[t] = "lookup_existing"
                    /\ existing_booking'[t] =
                           round_trip_bookings[OrderOf(t)].booking_data
                    /\ round_trip_bookings' = round_trip_bookings
               ELSE pc'[t] = "lookup_first"]_vars

\* C26's case: a handler found at its check a record older than the
\* retention window, merged its leg and forwarded the merged request
C26_Witness ==
    \E t \in Tasks :
        /\ "found_stale" \in sweep_seen
        /\ observed[t] = "present"
        /\ result[t] = "merged_ok"
        /\ forwards[OrderOf(t)] = 1
        /\ \A u \in Tasks \ {t} : observed[u] # "present"

\* C27: a merge that calls the forward has combined two distinct legs: the
\* leg it found stored is not the leg of its own notification, delivered a
\* second time.
C27_MergeOfDistinctLegs ==
    \A t \in Tasks :
        "forward" \in ext_calls[t] => existing_booking[t] # booking[t].leg

\* the await points of a single-leg handler whose forward has been called and
\* has not failed
SingleForwardedPcs == {"single_forward", "single_notify_success"}

C29_EveryHandlerFinishes ==
    \A t \in Tasks :
        /\ (pc[t] # "idle") ~> (pc[t] = "done")
        /\ (pc[t] = "acquire")
               ~> (order_lock[t] # NoLock /\ lock_owner[order_lock[t]] = t)

\* C29's case: three handlers of one order have all finished, the second and
\* the third having begun while the first was running, and the order's lock
\* is free
C29_Witness ==
    /\ \A t \in Tasks : pc[t] = "done" /\ OrderOf(t) = "ORD-1"
    /\ concurrent_with[2] # {} /\ concurrent_with[3] # {}
    /\ \A l \in LockIds : lock_owner[l] = NoTask
    /\ locks_lock = NoTask

\* C30: a lock once registered for an order_id stays the lock of that order:
\* no step removes or replaces an entry of the registry, so the registered
\* order_ids only grow, and the lock a task holds or waits on is still the
\* registered lock of its order after every step.
C30_RegisteredLockNeverDisposed ==
    [][/\ \A o \in Orders :
              order_locks[o] # NoLock => order_locks'[o] = order_locks[o]
       /\ \A t \in Tasks :
              pc[t] \in {"acquire"} \cup LockedPcs
              => order_locks'[OrderOf(t)] = order_lock[t]]_vars

\* C30's case: every handler has finished, two of them having merged ORD-1
\* and left no record of it, no lock is held, and the lock of ORD-1 is still
\* registered
C30_Witness ==
    /\ \A t \in Tasks : pc[t] = "done"
    /\ \E t \in Tasks : OrderOf(t) = "ORD-1" /\ merged_from[t] # NoTask
    /\ ~has_round_trip_booking(round_trip_bookings, "ORD-1")
    /\ \A l \in LockIds : lock_owner[l] = NoTask
    /\ order_locks["ORD-1"] # NoLock

====
